---- MODULE Spec2Model ----
(***************************************************************************)
(* Course Match: the two Streamlit pages that build and solve the course   *)
(* selection ILP.                                                          *)
(*   pages/4_Course_Match.py     pairwise conflict constraints             *)
(*   pages/5_v2_Course_Match.py  one constraint per time-slot group        *)
(* A section table is a sequence of rows; a Days cell is a sequence of     *)
(* one-letter strings ("MW" is <<"M", "W">>).  Credits and credit_limit    *)
(* are counted in quarter credits (the input widget's step is 0.25).       *)
(***************************************************************************)
EXTENDS Integers, Sequences, FiniteSets, TLC

VARIABLES
    pc,               \* position of the page script
    page,             \* "pairwise" (page 4) or "grouped" (page 5)
    course_data,      \* the section table read from the sheet
    student_year,     \* selectbox value
    budget,           \* derived from student_year
    credit_limit,     \* number_input value, in quarter credits
    problem,          \* the constraints added to the LpProblem so far
    varValue,         \* the solver's assignment, row index -> 0/1
    selected_courses, \* SectionIDs extracted after solving
    course_a,         \* arguments of a direct call of conflicts / get_group_id
    course_b,
    ret_conflicts,    \* <<conflicts(a, b), conflicts(b, a)>> once called
    ret_group         \* <<get_group_id(a), get_group_id(b)>> once called

vars == <<pc, page, course_data, student_year, budget, credit_limit, problem,
          varValue, selected_courses, course_a, course_b, ret_conflicts, ret_group>>

pageVars == <<pc, page, course_data, student_year, budget, credit_limit, problem,
              varValue, selected_courses>>

callVars == <<course_a, course_b, ret_conflicts, ret_group>>

----------------------------------------------------------------------------
(* Bounds of the model *)

MaxRows == 2

MaxDaysLen == 2

----------------------------------------------------------------------------
(* Input domains *)

DayLetters == <<"M", "T", "W", "R", "F">>

RECURSIVE LettersOf(_, _)
LettersOf(S, k) ==
    IF k > Len(DayLetters) THEN <<>>
    ELSE (IF k \in S THEN <<DayLetters[k]>> ELSE <<>>) \o LettersOf(S, k + 1)

\* every Days cell naming at most MaxDaysLen distinct days, in weekday order
DaysValues ==
    {LettersOf(S, 1) : S \in {T \in SUBSET (1..Len(DayLetters)) : Cardinality(T) <= MaxDaysLen}}

Quarters == {"Q1", "Q2", "Q3", "Q4"}

Terms == {"Full"} \cup Quarters

Times == {"8:30AM", "10:15AM"}

----------------------------------------------------------------------------
(* pages/4_Course_Match.py: conflicts *)

\* set(course['Days']): the set of the characters of the cell
CharSet(days) == {days[k] : k \in 1..Len(days)}

conflicts_OneSidedFull(course_a_, course_b_) ==
    IF course_a_.Time # course_b_.Time THEN FALSE
    ELSE IF course_a_.Term # course_b_.Term
            /\ ~(course_a_.Term = "Full" /\ course_b_.Term \in {"Q1", "Q2", "Q3", "Q4"})
    THEN FALSE
    ELSE LET days_a == CharSet(course_a_.Days)
             days_b == CharSet(course_b_.Days)
         IN  IF ("M" \in days_a /\ "M" \in days_b) \/ ("W" \in days_a /\ "W" \in days_b) THEN TRUE
             ELSE IF "MW" \in days_a /\ ("M" \in days_b \/ "W" \in days_b) THEN TRUE
             ELSE IF "MW" \in days_b /\ ("M" \in days_a \/ "W" \in days_a) THEN TRUE
             ELSE IF ("T" \in days_a /\ "T" \in days_b) \/ ("R" \in days_a /\ "R" \in days_b) THEN TRUE
             ELSE IF "TR" \in days_a /\ ("T" \in days_b \/ "R" \in days_b) THEN TRUE
             ELSE IF "TR" \in days_b /\ ("T" \in days_a \/ "R" \in days_a) THEN TRUE
             ELSE FALSE

conflicts_NoThursday(course_a_, course_b_) ==
    IF course_a_.Time # course_b_.Time THEN FALSE
    ELSE IF course_a_.Term # course_b_.Term
            /\ ~(\/ (course_a_.Term = "Full" /\ course_b_.Term \in {"Q1", "Q2", "Q3", "Q4"})
                 \/ (course_b_.Term = "Full" /\ course_a_.Term \in {"Q1", "Q2", "Q3", "Q4"}))
    THEN FALSE
    ELSE LET days_a == CharSet(course_a_.Days)
             days_b == CharSet(course_b_.Days)
         IN  IF ("M" \in days_a /\ "M" \in days_b) \/ ("W" \in days_a /\ "W" \in days_b) THEN TRUE
             ELSE IF "MW" \in days_a /\ ("M" \in days_b \/ "W" \in days_b) THEN TRUE
             ELSE IF "MW" \in days_b /\ ("M" \in days_a \/ "W" \in days_a) THEN TRUE
             ELSE IF ("T" \in days_a /\ "T" \in days_b) THEN TRUE
             ELSE IF "TR" \in days_a /\ ("T" \in days_b \/ "R" \in days_b) THEN TRUE
             ELSE IF "TR" \in days_b /\ ("T" \in days_a \/ "R" \in days_a) THEN TRUE
             ELSE FALSE

conflicts_NoTermCheck(course_a_, course_b_) ==
    IF course_a_.Time # course_b_.Time THEN FALSE
    ELSE LET days_a == CharSet(course_a_.Days)
             days_b == CharSet(course_b_.Days)
         IN  IF ("M" \in days_a /\ "M" \in days_b) \/ ("W" \in days_a /\ "W" \in days_b) THEN TRUE
             ELSE IF "MW" \in days_a /\ ("M" \in days_b \/ "W" \in days_b) THEN TRUE
             ELSE IF "MW" \in days_b /\ ("M" \in days_a \/ "W" \in days_a) THEN TRUE
             ELSE IF ("T" \in days_a /\ "T" \in days_b) \/ ("R" \in days_a /\ "R" \in days_b) THEN TRUE
             ELSE IF "TR" \in days_a /\ ("T" \in days_b \/ "R" \in days_b) THEN TRUE
             ELSE IF "TR" \in days_b /\ ("T" \in days_a \/ "R" \in days_a) THEN TRUE
             ELSE FALSE

conflicts(course_a_, course_b_) ==
    \* the time slots differ
    IF course_a_.Time # course_b_.Time THEN FALSE
    \* different terms, and neither is Full against a quarter
    ELSE IF course_a_.Term # course_b_.Term
            /\ ~(\/ (course_a_.Term = "Full" /\ course_b_.Term \in {"Q1", "Q2", "Q3", "Q4"})
                 \/ (course_b_.Term = "Full" /\ course_a_.Term \in {"Q1", "Q2", "Q3", "Q4"}))
    THEN FALSE
    ELSE LET days_a == CharSet(course_a_.Days)
             days_b == CharSet(course_b_.Days)
         IN  \* Monday and Wednesday
             IF ("M" \in days_a /\ "M" \in days_b) \/ ("W" \in days_a /\ "W" \in days_b) THEN TRUE
             ELSE IF "MW" \in days_a /\ ("M" \in days_b \/ "W" \in days_b) THEN TRUE
             ELSE IF "MW" \in days_b /\ ("M" \in days_a \/ "W" \in days_a) THEN TRUE
             \* Tuesday and Thursday
             ELSE IF ("T" \in days_a /\ "T" \in days_b) \/ ("R" \in days_a /\ "R" \in days_b) THEN TRUE
             ELSE IF "TR" \in days_a /\ ("T" \in days_b \/ "R" \in days_b) THEN TRUE
             ELSE IF "TR" \in days_b /\ ("T" \in days_a \/ "R" \in days_a) THEN TRUE
             ELSE FALSE

----------------------------------------------------------------------------
(* pages/5_v2_Course_Match.py: get_group_id *)

\* 'x' in row['Days'] for a one-letter x
HasDay(days, x) == \E k \in 1..Len(days) : days[k] = x

\* '_'.join(group_components)
RECURSIVE Join(_)
Join(components) ==
    IF Len(components) = 0 THEN ""
    ELSE IF Len(components) = 1 THEN components[1]
    ELSE components[1] \o "_" \o Join(Tail(components))

get_group_id(row) ==
    LET c0 == <<row.Time>>
        c1 == Append(c0, IF row.Term = "Full" THEN "Full" ELSE row.Term)
        c2 == IF HasDay(row.Days, "M") THEN Append(c1, "M") ELSE c1
        c3 == IF HasDay(row.Days, "W") THEN Append(c2, "W") ELSE c2
        c4 == IF HasDay(row.Days, "T") THEN Append(c3, "T") ELSE c3
        c5 == IF HasDay(row.Days, "R") THEN Append(c4, "R") ELSE c4
    IN  Join(c5)

----------------------------------------------------------------------------
(* Both pages: the LpProblem.  A constraint is  sum_i coef[i] * x_i <= rhs  *)
(* over the binary variables x_i, one per row of the table.                *)

RECURSIVE SumSeq(_)
SumSeq(s) == IF Len(s) = 0 THEN 0 ELSE s[1] + SumSeq(Tail(s))

\* the value of a linear expression under an assignment of the variables
Dot(coef, x) == SumSeq([i \in 1..Len(x) |-> coef[i] * x[i]])

\* lpSum(vars): each variable's coefficient is the number of times it is listed
lpSum(varlist, n) ==
    [i \in 1..n |-> Cardinality({k \in 1..Len(varlist) : varlist[k] = i})]

\* course_vars: SectionID -> variable; a later row with the same id wins
course_vars(data) ==
    [sid \in {data[i].SectionID : i \in 1..Len(data)} |->
        CHOOSE i \in 1..Len(data) :
            /\ data[i].SectionID = sid
            /\ \A j \in 1..Len(data) : data[j].SectionID = sid => j <= i]

BudgetFor_Swapped(year) == IF year = "1st Year" THEN 5500 ELSE 4400

BudgetFor(year) == IF year = "1st Year" THEN 4400 ELSE 5500

\* the objective: sum of Utility * Credits * x
Objective(data, x) ==
    SumSeq([i \in 1..Len(data) |->
        data[i].Utility * data[i].Credits * x[course_vars(data)[data[i].SectionID]]])

BudgetConstraint(data, b) ==
    [name |-> "BudgetConstraint",
     coef |-> [i \in 1..Len(data) |->
                 SumSeq([k \in 1..Len(data) |->
                    IF course_vars(data)[data[k].SectionID] = i THEN data[k].Price ELSE 0])],
     rhs  |-> b]

CreditLimitConstraint_StaleLiteral(data, limit) ==
    [name |-> "CreditLimitConstraint",
     coef |-> [i \in 1..Len(data) |->
                 SumSeq([k \in 1..Len(data) |->
                    IF course_vars(data)[data[k].SectionID] = i THEN data[k].Credits ELSE 0])],
     rhs  |-> 21]

CreditLimitConstraint(data, limit) ==
    [name |-> "CreditLimitConstraint",
     coef |-> [i \in 1..Len(data) |->
                 SumSeq([k \in 1..Len(data) |->
                    IF course_vars(data)[data[k].SectionID] = i THEN data[k].Credits ELSE 0])],
     rhs  |-> limit]

----------------------------------------------------------------------------
(* pages/4_Course_Match.py: the pairwise conflict constraints *)

LoopPairs_SkipNeighbour(n) == {p \in (1..n) \X (1..n) : ~(p[1] + 1 >= p[2])}

\* the pairs (i, j) of index labels the double loop does not skip
LoopPairs(n) == {p \in (1..n) \X (1..n) : ~(p[1] >= p[2])}

ConflictConstraints(data) ==
    {[name |-> "Conflict_" \o ToString(p[1]) \o "_" \o ToString(p[2]),
      coef |-> lpSum(<<course_vars(data)[data[p[1]].SectionID],
                       course_vars(data)[data[p[2]].SectionID]>>, Len(data)),
      rhs  |-> 1] :
        p \in {q \in LoopPairs(Len(data)) : conflicts(data[q[1]], data[q[2]])}}

----------------------------------------------------------------------------
(* pages/5_v2_Course_Match.py: the group constraints *)

\* course_data['GroupID'] = course_data.apply(get_group_id, axis=1)
WithGroupID(data) ==
    [i \in 1..Len(data) |-> data[i] @@ ("GroupID" :> get_group_id(data[i]))]

\* grouped_courses after the first n rows: GroupID -> list of variables
RECURSIVE grouped_courses(_, _)
grouped_courses(data, n) ==
    IF n = 0 THEN <<>>
    ELSE LET prev     == grouped_courses(data, n - 1)
             group_id == data[n].GroupID
             v        == course_vars(data)[data[n].SectionID]
         IN  IF group_id \notin DOMAIN prev
             THEN prev @@ (group_id :> <<v>>)
             ELSE [prev EXCEPT ![group_id] = Append(@, v)]

GroupConstraints(data) ==
    LET groups == grouped_courses(data, Len(data))
    IN  {[name |-> "GroupConstraint_" \o g,
          coef |-> lpSum(groups[g], Len(data)),
          rhs  |-> 1] : g \in DOMAIN groups}

----------------------------------------------------------------------------
(* Both pages: one section per course, exclusive courses *)

RECURSIVE course_sections_Reset(_, _)
course_sections_Reset(data, n) ==
    IF n = 0 THEN <<>>
    ELSE LET prev        == course_sections_Reset(data, n - 1)
             course_name == data[n].Section
             v           == course_vars(data)[data[n].SectionID]
         IN  (course_name :> <<v>>) @@ prev

\* course_sections after the first n rows: course name -> list of variables
RECURSIVE course_sections(_, _)
course_sections(data, n) ==
    IF n = 0 THEN <<>>
    ELSE LET prev        == course_sections(data, n - 1)
             course_name == data[n].Section
             v           == course_vars(data)[data[n].SectionID]
         IN  IF course_name \notin DOMAIN prev
             THEN prev @@ (course_name :> <<v>>)
             ELSE [prev EXCEPT ![course_name] = Append(@, v)]

OneSectionPerCourse(data) ==
    LET sections == course_sections(data, Len(data))
    IN  {[name |-> "OneSectionPerCourse_" \o c,
          coef |-> lpSum(sections[c], Len(data)),
          rhs  |-> 1] : c \in DOMAIN sections}

exclusive_courses ==
    << <<"MGMT6110", "MGMT6120">>, <<"COURSE_X1", "COURSE_X2">> >>

\* [course_vars[row['SectionID']] for row in rows 1..n if row['Section'] == course]
RECURSIVE VarsOfCourse(_, _, _)
VarsOfCourse(data, course, n) ==
    IF n = 0 THEN <<>>
    ELSE VarsOfCourse(data, course, n - 1)
         \o (IF data[n].Section = course
             THEN <<course_vars(data)[data[n].SectionID]>> ELSE <<>>)

RECURSIVE course_group_vars_Assign(_, _, _)
course_group_vars_Assign(data, course_group, m) ==
    IF m = 0 THEN <<>>
    ELSE VarsOfCourse(data, course_group[m], Len(data))

\* course_group_vars after extending with the first m courses of the group
RECURSIVE course_group_vars(_, _, _)
course_group_vars(data, course_group, m) ==
    IF m = 0 THEN <<>>
    ELSE course_group_vars(data, course_group, m - 1)
         \o VarsOfCourse(data, course_group[m], Len(data))

ExclusiveConstraint(data, course_group) ==
    [name |-> "ExclusiveConstraint_" \o Join(course_group),
     coef |-> lpSum(course_group_vars(data, course_group, Len(course_group)), Len(data)),
     rhs  |-> 1]

ExclusiveConstraints(data) ==
    {ExclusiveConstraint(data, exclusive_courses[g]) : g \in 1..Len(exclusive_courses)}

----------------------------------------------------------------------------
(* Both pages: problem.solve() and the extraction of the selection *)

Assignments(n) == [1..n -> {0, 1}]

Feasible(prob, x) == \A c \in prob : Dot(c.coef, x) <= c.rhs

FeasibleSet(prob, n) == {x \in Assignments(n) : Feasible(prob, x)}

\* the assignments the solver may return: any optimum of the built model
\* (with no feasible assignment the variables' values are unspecified)
Optimal(prob, data) ==
    LET F == FeasibleSet(prob, Len(data))
    IN  IF F = {} THEN Assignments(Len(data))
        ELSE {x \in F : \A y \in F : Objective(data, y) <= Objective(data, x)}

\* [row['SectionID'] for rows 1..n if course_vars[row['SectionID']].varValue == 1]
RECURSIVE Selected(_, _, _)
Selected(data, x, n) ==
    IF n = 0 THEN <<>>
    ELSE Selected(data, x, n - 1)
         \o (IF x[course_vars(data)[data[n].SectionID]] = 1
             THEN <<data[n].SectionID>> ELSE <<>>)

----------------------------------------------------------------------------
(* One run of a page: read the table and the inputs, build, solve, extract *)

NoCourse == [Time |-> "", Term |-> "", Days |-> <<>>]

\* conn.read(...) with rows drawn from rowSet, the two widgets, and the page
ReadInputs(rowSet, years, limits) ==
    /\ page \in {"pairwise", "grouped"}
    /\ \E n \in 0..MaxRows : \E t \in [1..n -> rowSet] :
          course_data =
             [i \in 1..n |->
                [SectionID |-> "S" \o ToString(i),
                 Section   |-> t[i].Section,
                 Days      |-> t[i].Days,
                 Time      |-> t[i].Time,
                 Term      |-> t[i].Term,
                 Price     |-> t[i].Price,
                 Credits   |-> t[i].Credits,
                 Utility   |-> t[i].Utility]]
    /\ student_year \in years
    /\ budget = BudgetFor(student_year)
    /\ credit_limit \in limits
    /\ problem = {}
    /\ varValue = <<>>
    /\ selected_courses = <<>>
    /\ pc = "budget"
    /\ course_a = NoCourse
    /\ course_b = NoCourse
    /\ ret_conflicts = <<>>
    /\ ret_group = <<>>

AddBudgetConstraint ==
    /\ pc = "budget"
    /\ problem' = problem \cup {BudgetConstraint(course_data, budget)}
    /\ pc' = "conflict"
    /\ UNCHANGED <<page, course_data, student_year, budget, credit_limit,
                   varValue, selected_courses, callVars>>

AddConflictConstraints ==
    /\ pc = "conflict"
    /\ page = "pairwise"
    /\ problem' = problem \cup ConflictConstraints(course_data)
    /\ pc' = "section"
    /\ UNCHANGED <<page, course_data, student_year, budget, credit_limit,
                   varValue, selected_courses, callVars>>

AddGroupConstraints ==
    /\ pc = "conflict"
    /\ page = "grouped"
    /\ course_data' = WithGroupID(course_data)
    /\ problem' = problem \cup GroupConstraints(course_data')
    /\ pc' = "section"
    /\ UNCHANGED <<page, student_year, budget, credit_limit,
                   varValue, selected_courses, callVars>>

AddOneSectionPerCourse ==
    /\ pc = "section"
    /\ problem' = problem \cup OneSectionPerCourse(course_data)
    /\ pc' = "exclusive"
    /\ UNCHANGED <<page, course_data, student_year, budget, credit_limit,
                   varValue, selected_courses, callVars>>

AddExclusiveConstraints ==
    /\ pc = "exclusive"
    /\ problem' = problem \cup ExclusiveConstraints(course_data)
    /\ pc' = "credit"
    /\ UNCHANGED <<page, course_data, student_year, budget, credit_limit,
                   varValue, selected_courses, callVars>>

AddCreditLimitConstraint ==
    /\ pc = "credit"
    /\ problem' = problem \cup {CreditLimitConstraint(course_data, credit_limit)}
    /\ pc' = "solve"
    /\ UNCHANGED <<page, course_data, student_year, budget, credit_limit,
                   varValue, selected_courses, callVars>>

Solve ==
    /\ pc = "solve"
    /\ varValue' \in Optimal(problem, course_data)
    /\ pc' = "extract"
    /\ UNCHANGED <<page, course_data, student_year, budget, credit_limit,
                   problem, selected_courses, callVars>>

ExtractSelected ==
    /\ pc = "extract"
    /\ selected_courses' = Selected(course_data, varValue, Len(course_data))
    /\ pc' = "done"
    /\ UNCHANGED <<page, course_data, student_year, budget, credit_limit,
                   problem, varValue, callVars>>

Next ==
    \/ AddBudgetConstraint
    \/ AddConflictConstraints
    \/ AddGroupConstraints
    \/ AddOneSectionPerCourse
    \/ AddExclusiveConstraints
    \/ AddCreditLimitConstraint
    \/ Solve
    \/ ExtractSelected

\* rows of one time slot that differ in term, days, course and utility;
\* the widgets keep their default values
TimetableRows ==
    [Section : {"FNCE6110", "MKTG6120"},
     Days    : {<<"M", "W">>, <<"M">>, <<"T", "R">>},
     Time    : {"8:30AM"},
     Term    : {"Full", "Q1", "Q2"},
     Price   : {1000},
     Credits : {4},
     Utility : {0, 1}]

Init == ReadInputs(TimetableRows, {"1st Year"}, {16})

Spec == Init /\ [][Next]_vars

\* rows that differ in price and utility; both years
BudgetRows ==
    [Section : {"FNCE6110", "MKTG6120"},
     Days    : {<<"M", "W">>},
     Time    : Times,
     Term    : {"Full"},
     Price   : {1000, 2500},
     Credits : {4},
     Utility : {0, 1}]

InitBudget == ReadInputs(BudgetRows, {"1st Year", "2nd Year"}, {16})

SpecBudget == InitBudget /\ [][Next]_vars

\* rows that differ in credits (0 or 1.0) and utility (negative, zero or
\* positive); credit limits 0, 1.0 and 4.0
CreditRows ==
    [Section : {"FNCE6110", "MKTG6120"},
     Days    : {<<"M", "W">>},
     Time    : Times,
     Term    : {"Full"},
     Price   : {1000},
     Credits : {0, 4},
     Utility : {-1, 0, 1}]

InitCredit == ReadInputs(CreditRows, {"1st Year"}, {0, 4, 16})

SpecCredit == InitCredit /\ [][Next]_vars

\* rows that differ in course name, with and without the exclusive courses
CatalogRows ==
    [Section : {"MGMT6110", "MGMT6120", "COURSE_X1", "FNCE6110"},
     Days    : {<<"M", "W">>, <<"T", "R">>},
     Time    : Times,
     Term    : {"Full"},
     Price   : {1000},
     Credits : {4},
     Utility : {0, 1}]

InitCatalog == ReadInputs(CatalogRows, {"1st Year"}, {16})

SpecCatalog == InitCatalog /\ [][Next]_vars

----------------------------------------------------------------------------
(* Direct calls of conflicts and get_group_id on two section records *)

Courses == [Time : Times, Term : Terms, Days : DaysValues]

InitCalls ==
    /\ course_a \in Courses
    /\ course_b \in Courses
    /\ ret_conflicts = <<>>
    /\ ret_group = <<>>
    /\ pc = "call"
    /\ page = "none"
    /\ course_data = <<>>
    /\ student_year = "1st Year"
    /\ budget = BudgetFor(student_year)
    /\ credit_limit = 16
    /\ problem = {}
    /\ varValue = <<>>
    /\ selected_courses = <<>>

CallConflicts ==
    /\ pc = "call"
    /\ ret_conflicts = <<>>
    /\ ret_conflicts' = <<conflicts(course_a, course_b), conflicts(course_b, course_a)>>
    /\ UNCHANGED <<pageVars, course_a, course_b, ret_group>>

CallGetGroupId ==
    /\ pc = "call"
    /\ ret_group = <<>>
    /\ ret_group' = <<get_group_id(course_a), get_group_id(course_b)>>
    /\ UNCHANGED <<pageVars, course_a, course_b, ret_conflicts>>

NextCalls ==
    \/ CallConflicts
    \/ CallGetGroupId

SpecCalls == InitCalls /\ [][NextCalls]_vars

----------------------------------------------------------------------------
(* Properties *)

\* the rows whose SectionID was extracted into selected_courses
SelectedRows ==
    {i \in 1..Len(course_data) :
        \E k \in 1..Len(selected_courses) : selected_courses[k] = course_data[i].SectionID}

\* script positions at which the named constraints have been added
AfterConflict == {"section", "exclusive", "credit", "solve", "extract", "done"}

AfterSection == {"exclusive", "credit", "solve", "extract", "done"}

AfterExclusive == {"credit", "solve", "extract", "done"}

\* the sum of Price over the selected sections
SelectedPrice ==
    SumSeq([i \in 1..Len(course_data) |->
               IF i \in SelectedRows THEN course_data[i].Price ELSE 0])

\* C1: on the pairwise page every pair of distinct rows for which conflicts()
\* is true has its constraint Conflict_i_j (x_i + x_j <= 1) in the problem,
\* and no two distinct selected sections conflict.
C1_PairwiseSelectionConflictFree ==
    /\ (page = "pairwise" /\ pc \in AfterConflict) =>
          \A i, j \in 1..Len(course_data) :
             (i < j /\ conflicts(course_data[i], course_data[j])) =>
                \E c \in problem :
                   /\ c.name = "Conflict_" \o ToString(i) \o "_" \o ToString(j)
                   /\ c.rhs = 1
                   /\ \A k \in 1..Len(course_data) :
                         c.coef[k] = IF k = i \/ k = j THEN 1 ELSE 0
    /\ (page = "pairwise" /\ pc = "done") =>
          \A i, j \in SelectedRows :
             i # j => ~conflicts(course_data[i], course_data[j])

\* a pairwise run in which two sections of different courses, both wanted,
\* conflict and exactly one of them is selected
C1_Witness ==
    /\ page = "pairwise"
    /\ pc = "done"
    /\ \E i, j \in 1..Len(course_data) :
          /\ i # j
          /\ conflicts(course_data[i], course_data[j])
          /\ course_data[i].Section # course_data[j].Section
          /\ course_data[i].Utility = 1
          /\ course_data[j].Utility = 1
          /\ i \in SelectedRows
          /\ j \notin SelectedRows

\* C2: conflicts(a, b) = conflicts(b, a) for all sections a and b.
C2_ConflictsSymmetric ==
    ret_conflicts # <<>> => ret_conflicts[1] = ret_conflicts[2]

\* conflicts was called on a Full section and a quarter section that conflict
C2_Witness ==
    /\ ret_conflicts = <<TRUE, TRUE>>
    /\ course_a.Term \in Quarters
    /\ course_b.Term = "Full"
    /\ course_a.Days # course_b.Days

Composite == {<<"M", "W">>, <<"T", "R">>}

Single == {<<"M">>, <<"W">>, <<"T">>, <<"R">>}

TermsPass(a, b) ==
    \/ a.Term = b.Term
    \/ (a.Term = "Full" /\ b.Term \in Quarters)
    \/ (b.Term = "Full" /\ a.Term \in Quarters)

\* the day-overlap rule as the claim states it: two composites always conflict
DayRuleClaimed(da, db) ==
    IF da \in Single /\ db \in Single THEN da = db
    ELSE IF da \in Composite /\ db \in Single THEN db[1] \in CharSet(da)
    ELSE IF da \in Single /\ db \in Composite THEN da[1] \in CharSet(db)
    ELSE TRUE

\* the rule with two composites conflicting iff they are the same composite
DayRuleAmended(da, db) ==
    IF da \in Single /\ db \in Single THEN da = db
    ELSE IF da \in Composite /\ db \in Single THEN db[1] \in CharSet(da)
    ELSE IF da \in Single /\ db \in Composite THEN da[1] \in CharSet(db)
    ELSE da = db

DayRuleCase ==
    /\ ret_conflicts # <<>>
    /\ course_a.Time = course_b.Time
    /\ TermsPass(course_a, course_b)
    /\ course_a.Days \in Composite \cup Single
    /\ course_b.Days \in Composite \cup Single

\* C3 as stated: same time slot, terms that pass the term check, days among
\* MW, TR, M, W, T, R: single vs single conflicts iff same day, composite vs
\* single iff the single day is a constituent, composite vs composite always.
C3_DayRuleAsClaimed ==
    DayRuleCase => ret_conflicts[1] = DayRuleClaimed(course_a.Days, course_b.Days)

\* C3 amended: as above, but composite vs composite conflicts iff the two
\* composites are the same (MW vs MW, TR vs TR); MW vs TR does not conflict.
C3_DayRuleAmended ==
    DayRuleCase => ret_conflicts[1] = DayRuleAmended(course_a.Days, course_b.Days)

\* conflicts was called on an MW section and a TR section of one slot and term
C3_Witness ==
    /\ DayRuleCase
    /\ course_a.Days = <<"M", "W">>
    /\ course_b.Days = <<"T", "R">>
    /\ ret_conflicts = <<FALSE, FALSE>>

\* C4: with the same time slot and the same days (a non-empty subset of
\* M, T, W, R) but different terms, conflicts() is true iff one term is Full
\* and the other a quarter; sections of different time slots never conflict.
C4_TermRule ==
    ret_conflicts # <<>> =>
       /\ (/\ course_a.Time = course_b.Time
           /\ course_a.Days = course_b.Days
           /\ course_a.Days # <<>>
           /\ CharSet(course_a.Days) \subseteq {"M", "T", "W", "R"}
           /\ course_a.Term # course_b.Term)
          => (ret_conflicts[1] <=>
                 \/ (course_a.Term = "Full" /\ course_b.Term \in Quarters)
                 \/ (course_b.Term = "Full" /\ course_a.Term \in Quarters))
       /\ course_a.Time # course_b.Time => ret_conflicts[1] = FALSE

\* conflicts was called on a Q1 and a Q2 section with the same slot and days
C4_Witness ==
    /\ ret_conflicts = <<FALSE, FALSE>>
    /\ course_a.Time = course_b.Time
    /\ course_a.Days = <<"M", "W">>
    /\ course_b.Days = <<"M", "W">>
    /\ course_a.Term = "Q1"
    /\ course_b.Term = "Q2"

\* C5: the prices of the selected sections sum to at most the budget (4400
\* for "1st Year", 5500 otherwise); with budget 4400, two sections priced
\* 2500 each are never both selected.
C5_BudgetRespected ==
    pc = "done" =>
       /\ SelectedPrice
             <= (IF student_year = "1st Year" THEN 4400 ELSE 5500)
       /\ student_year = "1st Year" =>
             \A i, j \in SelectedRows :
                (course_data[i].Price = 2500 /\ course_data[j].Price = 2500) => i = j

\* a first-year run with two wanted sections of different courses and time
\* slots, 2500 each, of which exactly one is selected
C5_Witness ==
    /\ pc = "done"
    /\ student_year = "1st Year"
    /\ \E i, j \in 1..Len(course_data) :
          /\ course_data[i].Price = 2500
          /\ course_data[j].Price = 2500
          /\ course_data[i].Section # course_data[j].Section
          /\ course_data[i].Time # course_data[j].Time
          /\ course_data[i].Utility = 1
          /\ course_data[j].Utility = 1
          /\ i \in SelectedRows
          /\ j \notin SelectedRows

\* C6 as stated: with credit_limit = 0 the extracted selection is empty.
C6_ZeroLimitEmptySelection ==
    (pc = "done" /\ credit_limit = 0) => selected_courses = <<>>

\* C6 amended: with credit_limit = 0 every selected section has Credits = 0,
\* so the selection is empty when every section has Credits > 0.
C6_ZeroLimitZeroCredits ==
    (pc = "done" /\ credit_limit = 0) =>
       /\ \A i \in SelectedRows : course_data[i].Credits = 0
       /\ (\A i \in 1..Len(course_data) : course_data[i].Credits > 0)
             => selected_courses = <<>>

\* a run with credit_limit = 0 over wanted sections that all carry credits
C6_Witness ==
    /\ pc = "done"
    /\ credit_limit = 0
    /\ Len(course_data) > 0
    /\ \A i \in 1..Len(course_data) :
          course_data[i].Credits > 0 /\ course_data[i].Utility = 1
    /\ selected_courses = <<>>

\* C7: every course name of the table has one constraint OneSectionPerCourse
\* over exactly the sections of that course, and at most one section of a
\* course is selected.
C7_OneSectionPerCourse ==
    /\ pc \in AfterSection =>
          \A i \in 1..Len(course_data) :
             LET cs == {c \in problem :
                           c.name = "OneSectionPerCourse_" \o course_data[i].Section}
             IN  /\ Cardinality(cs) = 1
                 /\ \A c \in cs :
                       /\ c.rhs = 1
                       /\ \A k \in 1..Len(course_data) :
                             c.coef[k] = IF course_data[k].Section = course_data[i].Section
                                         THEN 1 ELSE 0
    /\ pc = "done" =>
          \A i, j \in SelectedRows :
             course_data[i].Section = course_data[j].Section => i = j

\* a run with two wanted sections of one course in different time slots, of
\* which exactly one is selected
C7_Witness ==
    /\ pc = "done"
    /\ \E i, j \in 1..Len(course_data) :
          /\ i # j
          /\ course_data[i].Section = course_data[j].Section
          /\ course_data[i].Time # course_data[j].Time
          /\ course_data[i].Utility = 1
          /\ course_data[j].Utility = 1
          /\ i \in SelectedRows
          /\ j \notin SelectedRows

InGroup(i, g) ==
    \E m \in 1..Len(exclusive_courses[g]) : course_data[i].Section = exclusive_courses[g][m]

\* C8: sections with the same group id conflict under the pairwise predicate.
C8_SameGroupImpliesConflict ==
    (ret_group # <<>> /\ ret_conflicts # <<>> /\ ret_group[1] = ret_group[2])
        => ret_conflicts[1]

\* C9: at most one selected section has a course name in an exclusive group;
\* the constraint of a group with no section in the table is in the problem
\* and removes no assignment from the feasible set.
C9_ExclusiveGroups ==
    /\ pc = "done" =>
          \A g \in 1..Len(exclusive_courses) :
             \A i, j \in SelectedRows : (InGroup(i, g) /\ InGroup(j, g)) => i = j
    /\ pc \in AfterExclusive =>
          \A g \in 1..Len(exclusive_courses) :
             (\A i \in 1..Len(course_data) : ~InGroup(i, g)) =>
                \E c \in problem :
                   /\ c.name = "ExclusiveConstraint_" \o Join(exclusive_courses[g])
                   /\ \A x \in Assignments(Len(course_data)) :
                         Feasible(problem \ {c}, x) => Feasible(problem, x)

\* a run with wanted sections of MGMT6110 and MGMT6120 in different time
\* slots and no section of COURSE_X1 or COURSE_X2: exactly one is selected
C9_Witness ==
    /\ pc = "done"
    /\ \A i \in 1..Len(course_data) : ~InGroup(i, 2)
    /\ \E i, j \in 1..Len(course_data) :
          /\ course_data[i].Section = "MGMT6110"
          /\ course_data[j].Section = "MGMT6120"
          /\ course_data[i].Time # course_data[j].Time
          /\ course_data[i].Utility = 1
          /\ course_data[j].Utility = 1
          /\ i \in SelectedRows
          /\ j \notin SelectedRows

\* C10: on the grouped page a Full section and a quarter section with the
\* same time slot and the same days are never both selected.
C10_GroupedFullVsQuarter ==
    (page = "grouped" /\ pc = "done") =>
       \A i, j \in SelectedRows :
          ~(/\ course_data[i].Term = "Full"
            /\ course_data[j].Term \in Quarters
            /\ course_data[i].Time = course_data[j].Time
            /\ course_data[i].Days = course_data[j].Days)

====
